---- MODULE Spec2Model ----
(***************************************************************************)
(* Financial Analysis ITS (src/app.py): the concept classifier, the quiz   *)
(* progress tracker, the progress calculators and the recommender, with    *)
(* the Streamlit script modelled as one rerun per user interaction.        *)
(*                                                                         *)
(* Text values are sequences of one-character strings, so that lower(),    *)
(* strip(), split(), startswith() and substring containment are computed   *)
(* as Python computes them.  Python's None is the value None below.        *)
(***************************************************************************)
EXTENDS Integers, Sequences, FiniteSets, TLC

VARIABLES
    onto,              \* the loaded ontology (read-only after loading)
    quiz_correct,      \* st.session_state["quiz_correct"]: quiz name -> bool
    visited_concepts,  \* st.session_state["visited_concepts"]: set of names
    last_concept,      \* st.session_state["last_concept"]: name or None
    random_q,          \* st.session_state["random_q"]: <<concept, quiz>> or None
    page,              \* sidebar radio "Go to:"
    module,            \* Learn: selectbox "Choose a module:"
    search,            \* Learn: text input "Search concept"
    selected_name,     \* Learn: selectbox "Choose a topic:" (None: not drawn)
    mode,              \* Quiz Hub: radio "Quiz mode:"
    topic,             \* Quiz Hub: selectbox "Choose a topic:" (None: not drawn)
    groups,            \* result of group_concepts in the last run
    overall_progress,  \* result of compute_progress at the top of the last run
    mp,                \* result of module_progress in the last run
    recs,              \* result of recommend_next in the last run
    in_concepts,       \* argument list of a direct call of a calculator
    in_k,              \* argument k of a direct call of recommend_next
    event,             \* what the last step did
    last_result        \* history: the outcome of the latest submission per quiz

vars ==
    <<onto, quiz_correct, visited_concepts, last_concept, random_q, page,
      module, search, selected_name, mode, topic, groups, overall_progress,
      mp, recs, in_concepts, in_k, event, last_result>>

(***************************************************************************)
(* Bounds of the model.                                                    *)
(***************************************************************************)
MaxGroupLen == 3
MaxConcepts == 2
MaxQuizzes == 2
MaxCalcConcepts == 3
MaxRecConcepts == 3
MaxRelated == 2
MaxK == 4

(***************************************************************************)
(* Text.                                                                   *)
(***************************************************************************)
None == <<"<None>">>

Truthy(v) == v # None /\ v # <<>>

UpperCase ==
    <<"A","B","C","D","E","F","G","H","I","J","K","L","M",
      "N","O","P","Q","R","S","T","U","V","W","X","Y","Z">>

LowerCase ==
    <<"a","b","c","d","e","f","g","h","i","j","k","l","m",
      "n","o","p","q","r","s","t","u","v","w","x","y","z">>

UpperSet == {UpperCase[i] : i \in 1..Len(UpperCase)}

isupper(ch) == ch \in UpperSet

LowerOf ==
    [ch \in UpperSet |->
        LowerCase[CHOOSE i \in 1..Len(UpperCase) : UpperCase[i] = ch]]

lower_char(ch) == IF isupper(ch) THEN LowerOf[ch] ELSE ch

lower(s) == [i \in 1..Len(s) |-> lower_char(s[i])]

\* Python's `k in n` on strings: k is a contiguous substring of n.
contains(k, n) ==
    \E i \in 0..(Len(n) - Len(k)) : SubSeq(n, i + 1, i + Len(k)) = k

startswith(s, prefix) ==
    Len(prefix) <= Len(s) /\ SubSeq(s, 1, Len(prefix)) = prefix

isspace(ch) == ch = " "

RECURSIVE lstrip(_)
lstrip(s) ==
    IF s # <<>> /\ isspace(Head(s)) THEN lstrip(Tail(s)) ELSE s

RECURSIVE rstrip(_)
rstrip(s) ==
    IF s # <<>> /\ isspace(s[Len(s)])
    THEN rstrip(SubSeq(s, 1, Len(s) - 1))
    ELSE s

strip(s) == rstrip(lstrip(s))

\* Python's s.split(sep) for a one-character separator.
RECURSIVE split(_, _)
split(s, sep) ==
    IF \E i \in 1..Len(s) : s[i] = sep
    THEN LET i == CHOOSE j \in 1..Len(s) :
                      s[j] = sep /\ \A h \in 1..(j - 1) : s[h] # sep
         IN  <<SubSeq(s, 1, i - 1)>> \o split(SubSeq(s, i + 1, Len(s)), sep)
    ELSE <<s>>

InSeq(x, s) == \E i \in 1..Len(s) : s[i] = x

Min(a, b) == IF a <= b THEN a ELSE b

(***************************************************************************)
(* Keyword lists of group_concepts and the other literals of the program.  *)
(***************************************************************************)
FoundationsKeywords ==
    << <<"f","i","n","a","n","c","i","a","l","s","t","a","t","e","m","e","n","t","s">>,
       <<"b","a","l","a","n","c","e","s","h","e","e","t">>,
       <<"i","n","c","o","m","e","s","t","a","t","e","m","e","n","t">>,
       <<"c","a","s","h","f","l","o","w">> >>

ProfitabilityKeywords ==
    << <<"p","r","o","f","i","t","a","b","i","l","i","t","y">>,
       <<"r","e","t","u","r","n","o","n">>,
       <<"r","e","t","u","r","n","r","a","t","i","o","s">> >>

LiquidityKeywords ==
    << <<"l","i","q","u","i","d","i","t","y">>,
       <<"c","u","r","r","e","n","t","r","a","t","i","o">>,
       <<"q","u","i","c","k","r","a","t","i","o">>,
       <<"w","o","r","k","i","n","g","c","a","p","i","t","a","l">> >>

AssetUtilisationKeywords ==
    << <<"a","s","s","e","t","u","t","i","l","i","z","a","t","i","o","n">>,
       <<"a","s","s","e","t","u","t","i","l","i","s","a","t","i","o","n">> >>

LeverageKeywords ==
    << <<"l","e","v","e","r","a","g","e">>,
       <<"d","e","b","t","t","o","e","q","u","i","t","y">> >>

TrendKeywords ==
    << <<"t","r","e","n","d","a","n","a","l","y","s","i","s">>,
       <<"g","r","o","w","t","h","r","a","t","i","o","s">>,
       <<"b","e","n","c","h","m","a","r","k","i","n","g">> >>

DuPontKeywords ==
    << <<"d","u","p","o","n","t">> >>

Foundations == "Foundations: Financial Statements"
Profitability == "Profitability & Return Ratios"
Liquidity == "Liquidity & Working Capital"
AssetUtilisationModule == "Asset Utilisation & Efficiency"
Leverage == "Leverage & Capital Structure"
Trend == "Trend, Growth & Benchmarking"
DuPont == "Pyramid / DuPont Analysis"
OtherConcepts == "Other Concepts"

\* The keys of the dict `groups`, in insertion order.
ModuleNames ==
    <<Foundations, Profitability, Liquidity, AssetUtilisationModule,
      Leverage, Trend, DuPont, OtherConcepts>>

Unspecified == <<"U","n","s","p","e","c","i","f","i","e","d">>
BeginnerPrefix == <<"b","e","g","i","n","n","e","r">>

(***************************************************************************)
(* Ontology access.  onto.name, onto.hasLevel, onto.hasQuiz and            *)
(* onto.relatedTo are indexed by concept; onto.quizName,                   *)
(* onto.questionText, onto.options and onto.correctAnswer by quiz          *)
(* question.  A property holds the list of its values.                     *)
(***************************************************************************)
get_literal(entity, prop_name) ==
    LET vals == onto[prop_name][entity]
    IN  IF vals # <<>> THEN vals[1] ELSE None

list_concepts == [i \in 1..Len(onto.name) |-> i]

get_related(entity, prop) == onto[prop][entity]

get_quizzes(entity) == get_related(entity, "hasQuiz")

concept_name(c) == onto.name[c]

quiz_name(q) == onto.quizName[q]

concept_display_name(ind) ==
    LET name == concept_name(ind)
        piece(i) ==
            IF i > 1 /\ isupper(name[i]) /\ ~isupper(name[i - 1])
            THEN <<" ", name[i]>>
            ELSE <<name[i]>>
        RECURSIVE build(_)
        build(i) == IF i > Len(name) THEN <<>> ELSE piece(i) \o build(i + 1)
    IN  build(1)

get_level(entity) ==
    LET level == get_literal(entity, "hasLevel")
    IN  IF Truthy(level) THEN level ELSE Unspecified

(***************************************************************************)
(* group_concepts                                                          *)
(***************************************************************************)
any_keyword(keywords, n) ==
    \E i \in 1..Len(keywords) : contains(keywords[i], n)

EmptyGroups == [m \in {ModuleNames[i] : i \in 1..Len(ModuleNames)} |-> <<>>]

\* The chain with `if` in place of `elif`: every matching branch appends.
module_of_if(n) ==
    LET hit ==
            (IF any_keyword(FoundationsKeywords, n) THEN {Foundations} ELSE {})
            \cup (IF any_keyword(ProfitabilityKeywords, n) THEN {Profitability} ELSE {})
            \cup (IF any_keyword(LiquidityKeywords, n) THEN {Liquidity} ELSE {})
            \cup (IF any_keyword(AssetUtilisationKeywords, n)
                  THEN {AssetUtilisationModule} ELSE {})
            \cup (IF any_keyword(LeverageKeywords, n) THEN {Leverage} ELSE {})
            \cup (IF any_keyword(TrendKeywords, n) THEN {Trend} ELSE {})
    IN  hit \cup (IF any_keyword(DuPontKeywords, n) THEN {DuPont}
                  ELSE IF hit = {} THEN {OtherConcepts} ELSE {})

\* The chain with the DuPont test moved to the front.
module_of_dupont_first(n) ==
    IF any_keyword(DuPontKeywords, n) THEN {DuPont}
    ELSE IF any_keyword(FoundationsKeywords, n) THEN {Foundations}
    ELSE IF any_keyword(ProfitabilityKeywords, n) THEN {Profitability}
    ELSE IF any_keyword(LiquidityKeywords, n) THEN {Liquidity}
    ELSE IF any_keyword(AssetUtilisationKeywords, n) THEN {AssetUtilisationModule}
    ELSE IF any_keyword(LeverageKeywords, n) THEN {Leverage}
    ELSE IF any_keyword(TrendKeywords, n) THEN {Trend}
    ELSE {OtherConcepts}

\* The if/elif chain of the loop body: the keys whose lists receive c.
module_of(n) ==
    IF any_keyword(FoundationsKeywords, n) THEN {Foundations}
    ELSE IF any_keyword(ProfitabilityKeywords, n) THEN {Profitability}
    ELSE IF any_keyword(LiquidityKeywords, n) THEN {Liquidity}
    ELSE IF any_keyword(AssetUtilisationKeywords, n) THEN {AssetUtilisationModule}
    ELSE IF any_keyword(LeverageKeywords, n) THEN {Leverage}
    ELSE IF any_keyword(TrendKeywords, n) THEN {Trend}
    ELSE IF any_keyword(DuPontKeywords, n) THEN {DuPont}
    ELSE {OtherConcepts}

\* for c in concepts: n = c.name.lower(); groups[...].append(c)
RECURSIVE group_loop(_, _)
group_loop(concepts, acc) ==
    IF concepts = <<>> THEN acc
    ELSE LET c == Head(concepts)
             hit == UNION {module_of(n) : n \in {lower(concept_name(c))}}
             appended(h) ==
                 [m \in DOMAIN acc |->
                     IF m \in h THEN Append(acc[m], c) ELSE acc[m]]
         IN  group_loop(Tail(concepts), CHOOSE g \in {appended(h) : h \in {hit}} : TRUE)

group_concepts(concepts) == group_loop(concepts, EmptyGroups)

(***************************************************************************)
(* Progress tracking.  A percentage is the exact fraction num/den in       *)
(* lowest terms; 0.0 is 0/1.                                               *)
(***************************************************************************)
RECURSIVE gcd(_, _)
gcd(a, b) == IF b = 0 THEN a ELSE gcd(b, a % b)

Frac(num, den) ==
    LET g == gcd(num, den)
    IN  IF num = 0 THEN [num |-> 0, den |-> 1]
        ELSE [num |-> num \div g, den |-> den \div g]

Zero == Frac(0, 1)

FracLeq(a, b) == a.num * b.den <= b.num * a.den

\* dict.get(key, default)
dict_get(d, key, default) == IF key \in DOMAIN d THEN d[key] ELSE default

\* mark_quiz_result rebinds the dict to the one new entry.
mark_quiz_result_rebind(quiz, is_correct) ==
    [k \in {quiz} |-> is_correct]

\* The value of st.session_state["quiz_correct"] after the assignment.
mark_quiz_result(quiz, is_correct) ==
    [k \in DOMAIN quiz_correct \cup {quiz} |->
        IF k = quiz THEN is_correct ELSE quiz_correct[k]]

\* concept_mastered without the `if not qs` guard and with all() for any().
concept_mastered_all(concept) ==
    LET qs == get_quizzes(concept)
    IN  \A i \in 1..Len(qs) : dict_get(quiz_correct, quiz_name(qs[i]), FALSE)

concept_mastered(concept) ==
    LET qs == get_quizzes(concept)
    IN  IF qs = <<>> THEN FALSE
        ELSE \E i \in 1..Len(qs) :
                dict_get(quiz_correct, quiz_name(qs[i]), FALSE)

has_quizzes(c) == get_quizzes(c) # <<>>

\* compute_progress dividing by len(concepts).
compute_progress_all(concepts) ==
    LET with_quiz == SelectSeq(concepts, has_quizzes)
        mastered == SelectSeq(with_quiz, concept_mastered)
    IN  IF with_quiz = <<>> THEN Zero
        ELSE Frac(100 * Len(mastered), Len(concepts))

\* compute_progress counting the concepts that are not mastered.
compute_progress_inverted(concepts) ==
    LET with_quiz == SelectSeq(concepts, has_quizzes)
        mastered == SelectSeq(with_quiz, LAMBDA c : ~concept_mastered(c))
    IN  IF with_quiz = <<>> THEN Zero
        ELSE Frac(100 * Len(mastered), Len(with_quiz))

compute_progress(concepts) ==
    LET with_quiz == SelectSeq(concepts, has_quizzes)
        mastered == SelectSeq(with_quiz, concept_mastered)
    IN  IF with_quiz = <<>> THEN Zero
        ELSE Frac(100 * Len(mastered), Len(with_quiz))

module_progress(module_concepts) ==
    IF module_concepts = <<>> THEN Zero
    ELSE compute_progress(module_concepts)

(***************************************************************************)
(* Recommendation engine.                                                  *)
(***************************************************************************)
\* for c in candidates: if c not in recs: recs.append(c)
\*                      if len(recs) >= k: break
RECURSIVE fill_loop(_, _, _)
fill_loop(candidates, recs0, k) ==
    IF candidates = <<>> THEN recs0
    ELSE LET c == Head(candidates)
             recs1 == IF ~InSeq(c, recs0) THEN Append(recs0, c) ELSE recs0
         IN  IF Len(recs1) >= k THEN recs1
             ELSE fill_loop(Tail(candidates), recs1, k)

\* Phase 3 filling with any concept: if c not in recs: recs.append(c)
fill_any_loop(concepts, recs0, k) == fill_loop(concepts, recs0, k)

\* for c in concepts: if c not in recs and not concept_mastered(c): recs.append(c)
\*                    if len(recs) >= k: break
RECURSIVE fill_unmastered_loop(_, _, _)
fill_unmastered_loop(concepts, recs0, k) ==
    IF concepts = <<>> THEN recs0
    ELSE LET c == Head(concepts)
             recs1 == IF ~InSeq(c, recs0) /\ ~concept_mastered(c)
                      THEN Append(recs0, c) ELSE recs0
         IN  IF Len(recs1) >= k THEN recs1
             ELSE fill_unmastered_loop(Tail(concepts), recs1, k)

\* for r in get_related(m, "relatedTo"):
\*     if r not in related_candidates and not concept_mastered(r): append
RECURSIVE related_inner(_, _)
related_inner(rs, acc) ==
    IF rs = <<>> THEN acc
    ELSE LET r == Head(rs)
         IN  related_inner(Tail(rs),
                           IF ~InSeq(r, acc) /\ ~concept_mastered(r)
                           THEN Append(acc, r) ELSE acc)

RECURSIVE related_outer(_, _)
related_outer(mastered, acc) ==
    IF mastered = <<>> THEN acc
    ELSE related_outer(Tail(mastered),
                       related_inner(get_related(Head(mastered), "relatedTo"), acc))

\* recs[:k] for k >= 0
slice_to(s, k) == SubSeq(s, 1, Min(k, Len(s)))

is_beginner_candidate(c) ==
    /\ concept_name(c) \notin visited_concepts
    /\ startswith(lower(get_level(c)), BeginnerPrefix)

\* recommend_next returning recs without the final slice.
recommend_next_unsliced(concepts, grps, k) ==
    LET beginner_candidates == SelectSeq(concepts, is_beginner_candidate)
        mastered == SelectSeq(concepts, concept_mastered)
        related_candidates == related_outer(mastered, <<>>)
        recs1 == fill_loop(beginner_candidates, <<>>, k)
        recs2 == fill_loop(related_candidates, recs1, k)
    IN  IF Len(recs2) < k THEN fill_unmastered_loop(concepts, recs2, k)
        ELSE recs2

\* recommend_next filling from the related concepts before the beginners.
recommend_next_related_first(concepts, grps, k) ==
    LET beginner_candidates == SelectSeq(concepts, is_beginner_candidate)
        mastered == SelectSeq(concepts, concept_mastered)
        related_candidates == related_outer(mastered, <<>>)
        recs1 == fill_loop(related_candidates, <<>>, k)
        recs2 == fill_loop(beginner_candidates, recs1, k)
        recs3 == IF Len(recs2) < k THEN fill_unmastered_loop(concepts, recs2, k)
                 ELSE recs2
    IN  slice_to(recs3, k)

\* recommend_next without phase 3.
recommend_next_no_fill(concepts, grps, k) ==
    LET beginner_candidates == SelectSeq(concepts, is_beginner_candidate)
        mastered == SelectSeq(concepts, concept_mastered)
        related_candidates == related_outer(mastered, <<>>)
        recs1 == fill_loop(beginner_candidates, <<>>, k)
        recs2 == fill_loop(related_candidates, recs1, k)
    IN  slice_to(recs2, k)

recommend_next(concepts, grps, k) ==
    LET beginner_candidates == SelectSeq(concepts, is_beginner_candidate)
        mastered == SelectSeq(concepts, concept_mastered)
        related_candidates == related_outer(mastered, <<>>)
        recs1 == fill_loop(beginner_candidates, <<>>, k)
        recs2 == fill_loop(related_candidates, recs1, k)
        recs3 == IF Len(recs2) < k THEN fill_unmastered_loop(concepts, recs2, k)
                 ELSE recs2
    IN  slice_to(recs3, k)

(***************************************************************************)
(* The pages of the script.  One step of the session is one rerun of the   *)
(* whole script, caused by one interaction with a widget.  The answer      *)
(* radio of a quiz question is read at the click of its button: a step     *)
(* that clicks "Check" carries the index of the option chosen.             *)
(***************************************************************************)
Home == "Home"
Learn == "Learn"
QuizHub == "Quiz Hub"
Progress == "Progress & Recommendations"

Pages == {Home, Learn, QuizHub, Progress}

ByTopic == "By Topic"
RandomQuestion == "Random Question"

EmptyDict == [k \in {} |-> FALSE]

\* The value of a selectbox or radio the run did not draw.
NotDrawn == "(not drawn)"

\* module_progress is not shown by the run.
NotShown == [num |-> 0, den |-> 0]

NoClick == [kind |-> "run"]

Click(q, i) == [kind |-> "check", quiz |-> q, choice |-> i]

progress_state == <<quiz_correct, visited_concepts, last_concept>>

direct_call_args == <<in_concepts, in_k>>

\* `if not q_text or not options or not correct: ... continue`
fully_defined(q) ==
    /\ Truthy(get_literal(q, "questionText"))
    /\ Truthy(get_literal(q, "options"))
    /\ Truthy(get_literal(q, "correctAnswer"))

\* choices = [o.strip() for o in options.split("|")]
quiz_choices(q) ==
    LET parts == split(get_literal(q, "options"), "|")
    IN  [i \in 1..Len(parts) |-> strip(parts[i])]

\* user_answer.lower() == correct.strip().lower()
answer_is_correct_casefold(q, i) ==
    lower(quiz_choices(q)[i]) = lower(strip(get_literal(q, "correctAnswer")))

\* user_answer == correct.strip()
answer_is_correct(q, i) ==
    quiz_choices(q)[i] = strip(get_literal(q, "correctAnswer"))

\* The button handler of a quiz question: the new quiz_correct.
check_answer(q, i) ==
    IF answer_is_correct(q, i)
    THEN mark_quiz_result(quiz_name(q), TRUE)
    ELSE mark_quiz_result(quiz_name(q), FALSE)

\* History: the outcome of the submission `click`, if it is one.
submitted(click) ==
    IF click.kind = "check"
    THEN [last_result EXCEPT ![click.quiz] =
             IF answer_is_correct(click.quiz, click.choice)
             THEN "correct" ELSE "incorrect"]
    ELSE last_result

display_names(concepts) ==
    [i \in 1..Len(concepts) |-> concept_display_name(concepts[i])]

\* next(c for c in concepts if concept_display_name(c) == name)
concept_by_display_name(concepts, name) ==
    concepts[CHOOSE i \in 1..Len(concepts) :
                /\ concept_display_name(concepts[i]) = name
                /\ \A j \in 1..(i - 1) : concept_display_name(concepts[j]) # name]

\* Learn: module_concepts after the search filter.
learn_module_concepts(grps, m, s) ==
    LET module_concepts == grps[m]
        matches(c) ==
            \/ contains(lower(s), lower(concept_name(c)))
            \/ contains(lower(s), lower(concept_display_name(c)))
    IN  IF s # <<>> THEN SelectSeq(module_concepts, matches)
        ELSE module_concepts

\* A selectbox shows its first option when it is drawn anew.
first_option(options) == IF options = <<>> THEN None ELSE options[1]

quiz_concepts == SelectSeq(list_concepts, has_quizzes)

\* questions.append((c, q)) for every quiz concept and each of its quizzes
RECURSIVE questions_of(_)
questions_of(concepts) ==
    IF concepts = <<>> THEN <<>>
    ELSE LET c == Head(concepts)
             qs == get_quizzes(c)
         IN  [i \in 1..Len(qs) |-> <<c, qs[i]>>] \o questions_of(Tail(concepts))

\* Lines 305-324: what every run does before it draws a page.
TopOfScript ==
    /\ onto' = onto
    /\ groups' = group_concepts(list_concepts)
    /\ overall_progress' = compute_progress(list_concepts)
    /\ UNCHANGED direct_call_args

HomePage ==
    /\ TopOfScript
    /\ page' = Home
    /\ module' = NotDrawn /\ search' = None /\ selected_name' = None
    /\ mode' = NotDrawn /\ topic' = None
    /\ UNCHANGED <<progress_state, random_q, last_result>>
    /\ mp' = NotShown
    /\ recs' = recommend_next(list_concepts, groups', 5)
    /\ event' = NoClick

ProgressPage ==
    /\ TopOfScript
    /\ page' = Progress
    /\ module' = NotDrawn /\ search' = None /\ selected_name' = None
    /\ mode' = NotDrawn /\ topic' = None
    /\ UNCHANGED <<progress_state, random_q, last_result>>
    /\ mp' = NotShown
    /\ recs' = recommend_next(list_concepts, groups', 7)
    /\ event' = NoClick

\* The Learn page without line 421: the concept viewed is stored as
\* last_concept and not added to the visited set.
LearnPage_not_added(m, s, name, click) ==
    /\ TopOfScript
    /\ \E module_concepts \in {learn_module_concepts(groups', m, s)} :
        /\ page' = Learn
        /\ module' = m /\ search' = s
        /\ mode' = NotDrawn /\ topic' = None
        /\ random_q' = random_q
        /\ recs' = <<>>
        /\ event' = click
        /\ IF module_concepts = <<>>
           THEN /\ selected_name' = None
                /\ UNCHANGED <<progress_state, last_result>>
                /\ mp' = NotShown
           ELSE LET selected_concept ==
                        concept_by_display_name(module_concepts, name)
                IN  /\ selected_name' = name
                    /\ last_concept' = concept_name(selected_concept)
                    /\ visited_concepts' = visited_concepts
                    /\ quiz_correct' =
                           IF click.kind = "check"
                           THEN check_answer(click.quiz, click.choice)
                           ELSE quiz_correct
                    /\ last_result' = submitted(click)
                    /\ mp' = module_progress(module_concepts)'

\* The Learn page drawn with module m, search text s and topic `name`
\* selected; click is the "Check answer" button pressed, if any.
LearnPage(m, s, name, click) ==
    /\ TopOfScript
    /\ \E module_concepts \in {learn_module_concepts(groups', m, s)} :
        /\ page' = Learn
        /\ module' = m /\ search' = s
        /\ mode' = NotDrawn /\ topic' = None
        /\ random_q' = random_q
        /\ recs' = <<>>
        /\ event' = click
        /\ IF module_concepts = <<>>
           THEN /\ selected_name' = None
                /\ UNCHANGED <<progress_state, last_result>>
                /\ mp' = NotShown
           ELSE LET selected_concept ==
                        concept_by_display_name(module_concepts, name)
                IN  /\ selected_name' = name
                    /\ last_concept' = concept_name(selected_concept)
                    /\ visited_concepts' =
                           visited_concepts \cup {concept_name(selected_concept)}
                    /\ quiz_correct' =
                           IF click.kind = "check"
                           THEN check_answer(click.quiz, click.choice)
                           ELSE quiz_correct
                    /\ last_result' = submitted(click)
                    /\ mp' = module_progress(module_concepts)'

\* The Quiz Hub drawn with mode md and topic `name`; click is the "Check"
\* button pressed, if any; drawn is the question "Draw Random Question"
\* chose, if that button was pressed.
QuizHubPage(md, name, click, drawn) ==
    /\ TopOfScript
    /\ page' = QuizHub
    /\ module' = NotDrawn /\ search' = None /\ selected_name' = None
    /\ UNCHANGED <<visited_concepts, last_concept>>
    /\ mp' = NotShown
    /\ recs' = <<>>
    /\ event' = click
    /\ IF quiz_concepts = <<>>
       THEN /\ mode' = NotDrawn /\ topic' = None
            /\ UNCHANGED <<quiz_correct, random_q, last_result>>
       ELSE /\ mode' = md
            /\ topic' = IF md = ByTopic THEN name ELSE None
            /\ random_q' = IF md = RandomQuestion /\ drawn # None
                           THEN drawn ELSE random_q
            /\ quiz_correct' =
                   IF click.kind = "check"
                   THEN check_answer(click.quiz, click.choice)
                   ELSE quiz_correct
            /\ last_result' = submitted(click)

(***************************************************************************)
(* Ontologies.  The ontology file is not part of the program: the model    *)
(* draws it from the families below.                                       *)
(***************************************************************************)
CurrentRatio == <<"C","u","r","r","e","n","t","R","a","t","i","o">>
QuickRatio == <<"Q","u","i","c","k","R","a","t","i","o">>
DuPontAnalysis == <<"D","u","P","o","n","t","A","n","a","l","y","s","i","s">>
ForeignExchangeRisk ==
    <<"F","o","r","e","i","g","n","E","x","c","h","a","n","g","e","R","i","s","k">>
ReturnOnEquity == <<"R","e","t","u","r","n","O","n","E","q","u","i","t","y">>
CashFlowLiquidity ==
    <<"C","a","s","h","F","l","o","w","L","i","q","u","i","d","i","t","y">>
LeverageDuPont == <<"L","e","v","e","r","a","g","e","D","u","P","o","n","t">>
Benchmarking == <<"B","e","n","c","h","m","a","r","k","i","n","g">>
AssetUtilisation ==
    <<"A","s","s","e","t","U","t","i","l","i","s","a","t","i","o","n">>

ConceptNames ==
    <<CurrentRatio, QuickRatio, DuPontAnalysis, ForeignExchangeRisk,
      ReturnOnEquity, CashFlowLiquidity, LeverageDuPont, Benchmarking,
      AssetUtilisation>>

QuizNames ==
    << <<"Q","1">>, <<"Q","2">>, <<"Q","3">>, <<"Q","4">>, <<"Q","5">> >>

BeginnerLevel == <<"B","e","g","i","n","n","e","r">>
BeginnerUpper == <<"B","E","G","I","N","N","E","R"," ","I","I">>
QText == <<"W","h","a","t","?">>
OptionsAa == <<"A"," ","|","a">>
CorrectA == <<" ","A">>

GoodQuiz ==
    [questionText |-> <<QText>>, options |-> <<OptionsAa>>,
     correctAnswer |-> <<CorrectA>>]
NoTextQuiz ==
    [questionText |-> <<>>, options |-> <<OptionsAa>>,
     correctAnswer |-> <<CorrectA>>]
NoOptionsQuiz ==
    [questionText |-> <<QText>>, options |-> << <<>> >>,
     correctAnswer |-> <<CorrectA>>]
NoCorrectQuiz ==
    [questionText |-> <<QText>>, options |-> <<OptionsAa>>,
     correctAnswer |-> <<>>]

QuizPool == {GoodQuiz, NoTextQuiz, NoOptionsQuiz, NoCorrectQuiz}

SearchQuickR == <<"Q","u","i","c","k"," ","R">>
SearchPool == {<<>>, SearchQuickR}

\* The quiz questions of concept c under `owner` (0: attached to no concept).
owned_quizzes(owner, c) ==
    SelectSeq([q \in 1..Len(owner) |-> q], LAMBDA q : owner[q] = c)

\* An ontology of n concepts: levels[c] and related[c] are the values of
\* hasLevel and relatedTo of concept c, owner[q] and kind[q] the concept
\* and the literals of quiz question q.
Ontology(n, levels, related, owner, kind) ==
    [name |-> SubSeq(ConceptNames, 1, n),
     hasLevel |-> levels,
     relatedTo |-> related,
     hasQuiz |-> [c \in 1..n |-> owned_quizzes(owner, c)],
     quizName |-> SubSeq(QuizNames, 1, Len(owner)),
     questionText |-> [q \in 1..Len(owner) |-> kind[q].questionText],
     options |-> [q \in 1..Len(owner) |-> kind[q].options],
     correctAnswer |-> [q \in 1..Len(owner) |-> kind[q].correctAnswer]]

\* Every assignment of MaxQuizzes quiz questions to the n concepts (0: to none).
QuizOwners(n) == [1..MaxQuizzes -> 0..n]

\* The session's ontologies: concept 1 is a beginner topic, concept 3 too
\* (in capitals), the others have no level; each concept is related to
\* the next one.
SessionLevels(n) ==
    [c \in 1..n |->
        IF c % 3 = 1 THEN <<BeginnerLevel>>
        ELSE IF c % 3 = 0 THEN <<BeginnerUpper>>
        ELSE <<>>]

SessionRelated(n) ==
    [c \in 1..n |-> IF n > 1 THEN <<(c % n) + 1>> ELSE <<>>]

SessionOntologies ==
    {Ontology(n, SessionLevels(n), SessionRelated(n), owner, kind) :
        <<n, owner, kind>> \in
            {t \in (0..MaxConcepts) \X QuizOwners(MaxConcepts) \X
                     [1..MaxQuizzes -> QuizPool] :
                /\ \A q \in 1..MaxQuizzes :
                       /\ t[2][q] <= t[1]
                       /\ t[2][q] = 0 => t[3][q] = GoodQuiz}}

(***************************************************************************)
(* The session: Init is the state after the first run of the script (the   *)
(* Home page); each action is one interaction and the rerun it causes.     *)
(***************************************************************************)
Init ==
    /\ onto \in SessionOntologies
    /\ quiz_correct = EmptyDict
    /\ visited_concepts = {}
    /\ last_concept = None
    /\ random_q = None
    /\ page = Home
    /\ module = NotDrawn /\ search = None /\ selected_name = None
    /\ mode = NotDrawn /\ topic = None
    /\ in_concepts = <<>> /\ in_k = 0
    /\ mp = NotShown
    /\ event = NoClick
    /\ last_result = [q \in 1..Len(onto.quizName) |-> "none"]
    /\ IF list_concepts = <<>>
       THEN /\ groups = EmptyGroups
            /\ overall_progress = Zero
            /\ recs = <<>>
       ELSE /\ groups = group_concepts(list_concepts)
            /\ overall_progress = compute_progress(list_concepts)
            /\ recs = recommend_next(list_concepts, groups, 5)

\* The options the topic selectbox shows for module m and search text s.
learn_options(m, s) == display_names(learn_module_concepts(groups, m, s))

GoTo(pg) ==
    /\ list_concepts # <<>>
    /\ pg # page
    /\ \/ pg = Home /\ HomePage
       \/ pg = Progress /\ ProgressPage
       \/ /\ pg = Learn
          /\ LearnPage(ModuleNames[1], <<>>,
                       first_option(learn_options(ModuleNames[1], <<>>)), NoClick)
       \/ /\ pg = QuizHub
          /\ QuizHubPage(ByTopic, first_option(display_names(quiz_concepts)),
                         NoClick, None)

ChooseModule(m) ==
    /\ page = Learn
    /\ m # module
    /\ LearnPage(m, search, first_option(learn_options(m, search)), NoClick)

TypeSearch(s) ==
    /\ page = Learn
    /\ s # search
    /\ LearnPage(module, s,
                 IF /\ selected_name # None
                    /\ learn_options(module, s) = learn_options(module, search)
                 THEN selected_name
                 ELSE first_option(learn_options(module, s)),
                 NoClick)

ChooseTopic(name) ==
    /\ page = Learn
    /\ selected_name # None
    /\ name # selected_name
    /\ InSeq(name, learn_options(module, search))
    /\ LearnPage(module, search, name, NoClick)

learn_selected_concept ==
    concept_by_display_name(learn_module_concepts(groups, module, search),
                            selected_name)

LearnCheckAnswer(q, i) ==
    /\ page = Learn
    /\ selected_name # None
    /\ InSeq(q, get_quizzes(learn_selected_concept))
    /\ fully_defined(q)
    /\ i \in DOMAIN quiz_choices(q)
    /\ LearnPage(module, search, selected_name, Click(q, i))

\* Any other widget of the Learn page (an answer radio, a calculator input).
LearnRerun ==
    /\ page = Learn
    /\ selected_name # None
    /\ LearnPage(module, search, selected_name, NoClick)

ChooseMode(md) ==
    /\ page = QuizHub
    /\ mode # NotDrawn
    /\ md # mode
    /\ QuizHubPage(md, first_option(display_names(quiz_concepts)), NoClick, None)

ChooseQuizTopic(name) ==
    /\ page = QuizHub
    /\ mode = ByTopic
    /\ name # topic
    /\ InSeq(name, display_names(quiz_concepts))
    /\ QuizHubPage(ByTopic, name, NoClick, None)

QuizHubCheck(q, i) ==
    /\ page = QuizHub
    /\ mode = ByTopic
    /\ InSeq(q, get_quizzes(concept_by_display_name(quiz_concepts, topic)))
    /\ fully_defined(q)
    /\ i \in DOMAIN quiz_choices(q)
    /\ QuizHubPage(ByTopic, topic, Click(q, i), None)

DrawRandomQuestion(j) ==
    /\ page = QuizHub
    /\ mode = RandomQuestion
    /\ j \in DOMAIN questions_of(quiz_concepts)
    /\ QuizHubPage(RandomQuestion, None, NoClick, questions_of(quiz_concepts)[j])

RandomCheckAnswer(i) ==
    /\ page = QuizHub
    /\ mode = RandomQuestion
    /\ random_q # None
    /\ fully_defined(random_q[2])
    /\ i \in DOMAIN quiz_choices(random_q[2])
    /\ QuizHubPage(RandomQuestion, None, Click(random_q[2], i), None)

Quizzes == 1..Len(onto.quizName)

MaxChoices == 2

Next ==
    \/ \E pg \in Pages : GoTo(pg)
    \/ \E i \in 1..Len(ModuleNames) : ChooseModule(ModuleNames[i])
    \/ \E s \in SearchPool : TypeSearch(s)
    \/ \E c \in 1..Len(onto.name) : ChooseTopic(concept_display_name(c))
    \/ \E q \in Quizzes, i \in 1..MaxChoices : LearnCheckAnswer(q, i)
    \/ LearnRerun
    \/ \E md \in {ByTopic, RandomQuestion} : ChooseMode(md)
    \/ \E c \in 1..Len(onto.name) : ChooseQuizTopic(concept_display_name(c))
    \/ \E q \in Quizzes, i \in 1..MaxChoices : QuizHubCheck(q, i)
    \/ \E j \in 1..MaxQuizzes : DrawRandomQuestion(j)
    \/ \E i \in 1..MaxChoices : RandomCheckAnswer(i)

Spec == Init /\ [][Next]_vars

(***************************************************************************)
(* Direct calls of the calculators: Init draws the arguments and the       *)
(* session state a call can meet, the actions apply the functions.         *)
(***************************************************************************)
Call(fn) == [kind |-> "call", fn |-> fn]

NotCalled == [kind |-> "start"]

\* The session state a direct call leaves alone, and the widgets.
IdleSession ==
    /\ random_q = None
    /\ page = Home
    /\ module = NotDrawn /\ search = None /\ selected_name = None
    /\ mode = NotDrawn /\ topic = None
    /\ event = NotCalled

session_and_widgets ==
    <<onto, progress_state, random_q, page, module, search, selected_name,
      mode, topic, in_concepts, last_result>>

\* History of a session that built the dict quiz_correct.
HistoryOfDict ==
    last_result =
        [q \in 1..Len(onto.quizName) |->
            IF quiz_name(q) \notin DOMAIN quiz_correct THEN "none"
            ELSE IF quiz_correct[quiz_name(q)] THEN "correct"
            ELSE "incorrect"]

Injective(s) == \A i, j \in DOMAIN s : s[i] = s[j] => i = j

\* The duplicate-free lists of at most n elements of S.
DupFreeSeqs(S, n) ==
    UNION {{s \in [1..k -> S] : Injective(s)} : k \in 0..n}

\* The dicts quiz submissions can have built: a result for any of the
\* fully defined quiz questions that belong to a concept.
AnswerableQuizzes ==
    {q \in 1..Len(onto.quizName) :
        /\ fully_defined(q)
        /\ \E c \in 1..Len(onto.name) : InSeq(q, get_quizzes(c))}

ReachableDicts ==
    UNION {[{quiz_name(q) : q \in K} -> BOOLEAN] : K \in SUBSET AnswerableQuizzes}

(* group_concepts *)
GroupOntology ==
    LET n == Len(ConceptNames)
    IN  Ontology(n, [c \in 1..n |-> <<>>], [c \in 1..n |-> <<>>], <<>>, <<>>)

InitGroup ==
    /\ onto = GroupOntology
    /\ in_concepts \in DupFreeSeqs(1..Len(ConceptNames), MaxGroupLen)
    /\ in_k = 0
    /\ quiz_correct = EmptyDict
    /\ visited_concepts = {}
    /\ last_concept = None
    /\ IdleSession
    /\ HistoryOfDict
    /\ groups = EmptyGroups
    /\ overall_progress = Zero
    /\ mp = NotShown
    /\ recs = <<>>

CallGroupConcepts ==
    /\ groups' = group_concepts(in_concepts)
    /\ event' = Call("group_concepts")
    /\ UNCHANGED <<session_and_widgets, in_k, overall_progress, mp, recs>>

NextGroup == CallGroupConcepts

SpecGroup == InitGroup /\ [][NextGroup]_vars

(* concept_mastered, compute_progress, module_progress *)
CalcOntologies ==
    LET n == MaxCalcConcepts
    IN  {Ontology(n, [c \in 1..n |-> <<>>], [c \in 1..n |-> <<>>],
                  t[1], t[2]) :
            t \in {u \in QuizOwners(n) \X
                          [1..MaxQuizzes -> {GoodQuiz, NoCorrectQuiz}] :
                      \A q \in 1..MaxQuizzes :
                          u[1][q] = 0 => u[2][q] = GoodQuiz}}

\* The sublists of the list 1..n, in order.
SubLists(n) ==
    {SelectSeq([i \in 1..n |-> i], LAMBDA i : i \in K) : K \in SUBSET (1..n)}

InitCalc ==
    /\ onto \in CalcOntologies
    /\ in_concepts \in SubLists(MaxCalcConcepts)
    /\ in_k = 0
    /\ quiz_correct \in ReachableDicts
    /\ visited_concepts = {}
    /\ last_concept = None
    /\ IdleSession
    /\ HistoryOfDict
    /\ groups = EmptyGroups
    /\ overall_progress = NotShown
    /\ mp = NotShown
    /\ recs = <<>>

CallComputeProgress ==
    /\ overall_progress' = compute_progress(in_concepts)
    /\ event' = Call("compute_progress")
    /\ UNCHANGED <<session_and_widgets, in_k, groups, mp, recs>>

CallModuleProgress ==
    /\ mp' = module_progress(in_concepts)
    /\ event' = Call("module_progress")
    /\ UNCHANGED <<session_and_widgets, in_k, groups, overall_progress, recs>>

NextCalc == CallComputeProgress \/ CallModuleProgress

SpecCalc == InitCalc /\ [][NextCalc]_vars

(* recommend_next *)
LevelPool == {<<>>, <<BeginnerUpper>>}

\* The relatedTo lists of n concepts with at most MaxRelated entries in all.
RelatedLists(n) == UNION {[1..k -> 1..n] : k \in 0..MaxRelated}

RECURSIVE total_len(_, _)
total_len(f, n) == IF n = 0 THEN 0 ELSE Len(f[n]) + total_len(f, n - 1)

RelatedMaps(n) ==
    {f \in [1..n -> RelatedLists(n)] : total_len(f, n) <= MaxRelated}

\* Concept c has the one quiz question c.
RecOntologies(n) ==
    {Ontology(n, t[1], t[2], [q \in 1..n |-> q], [q \in 1..n |-> GoodQuiz]) :
        t \in [1..n -> LevelPool] \X RelatedMaps(n)}

ReachableVisited ==
    SUBSET {concept_name(c) : c \in 1..Len(onto.name)}

InitRec ==
    /\ onto \in UNION {RecOntologies(n) : n \in 0..MaxRecConcepts}
    /\ in_concepts = list_concepts
    /\ in_k = 0
    /\ quiz_correct \in
           {d \in ReachableDicts : \A k \in DOMAIN d : d[k] = TRUE}
    /\ visited_concepts \in ReachableVisited
    /\ last_concept =
           IF visited_concepts = {} THEN None
           ELSE CHOOSE v \in visited_concepts : TRUE
    /\ IdleSession
    /\ HistoryOfDict
    /\ groups = EmptyGroups
    /\ overall_progress = NotShown
    /\ mp = NotShown
    /\ recs = <<>>

CallRecommendNext(k) ==
    /\ in_k' = k
    /\ recs' = recommend_next(in_concepts, groups, k)
    /\ event' = Call("recommend_next")
    /\ UNCHANGED <<session_and_widgets, groups, overall_progress, mp>>

NextRec == \E k \in 0..MaxK : CallRecommendNext(k)

SpecRec == InitRec /\ [][NextRec]_vars

(* quiz submissions *)
OptionsABab == <<" ","a"," ","b","|","a","b">>
OptionsABlank == <<"A","|"," ">>
CorrectLowerA == <<"a">>
CorrectAB == <<"a"," ","b"," ">>
CorrectAb == <<"a","b">>
CorrectBlank == <<" ">>

OptionsPool == {OptionsAa, OptionsABab, OptionsABlank}
CorrectPool == {CorrectA, CorrectLowerA, CorrectAB, CorrectAb, CorrectBlank}

\* Two concepts of one module, each with one fully defined quiz question;
\* the first question draws its options and its correct answer.
AnswerOntologies ==
    {Ontology(2, SessionLevels(2), SessionRelated(2), <<1, 2>>,
              <<[questionText |-> <<QText>>, options |-> <<o>>,
                 correctAnswer |-> <<c>>],
                GoodQuiz>>) :
        <<o, c>> \in OptionsPool \X CorrectPool}

\* The state after the first run of the script, as Init.
InitAnswer ==
    /\ onto \in AnswerOntologies
    /\ quiz_correct = EmptyDict
    /\ visited_concepts = {}
    /\ last_concept = None
    /\ random_q = None
    /\ page = Home
    /\ module = NotDrawn /\ search = None /\ selected_name = None
    /\ mode = NotDrawn /\ topic = None
    /\ in_concepts = <<>> /\ in_k = 0
    /\ mp = NotShown
    /\ event = NoClick
    /\ last_result = [q \in 1..Len(onto.quizName) |-> "none"]
    /\ groups = group_concepts(list_concepts)
    /\ overall_progress = compute_progress(list_concepts)
    /\ recs = recommend_next(list_concepts, groups, 5)

SpecAnswer == InitAnswer /\ [][Next]_vars

(***************************************************************************)
(* Properties.                                                             *)
(***************************************************************************)
Called(fn) == event.kind = "call" /\ event.fn = fn

ModuleSet == {ModuleNames[i] : i \in 1..Len(ModuleNames)}

\* The places <<module, index>> of the grouping that hold concept c.
PlacesOf(c) ==
    {pl \in ModuleSet \X (1..Len(in_concepts)) :
        pl[2] <= Len(groups[pl[1]]) /\ groups[pl[1]][pl[2]] = c}

\* C1: after group_concepts, every concept of the input list is at exactly
\* one place of exactly one of the eight module lists, and the module lists
\* hold nothing but concepts of the input list.
Thm_C1_Partition ==
    Called("group_concepts") =>
        /\ DOMAIN groups = ModuleSet
        /\ Cardinality(ModuleSet) = 8
        /\ \A i \in 1..Len(in_concepts) :
               Cardinality(PlacesOf(in_concepts[i])) = 1
        /\ \A m \in ModuleSet : \A j \in 1..Len(groups[m]) :
               InSeq(groups[m][j], in_concepts)

\* A grouping of three concepts, two in one module, the third with a name
\* that holds keywords of two rules.
Wit_C1_Partition ==
    /\ Called("group_concepts")
    /\ Len(in_concepts) = 3
    /\ Len(groups[Liquidity]) = 2
    /\ \E i \in 1..3 : concept_name(in_concepts[i]) = LeverageDuPont

\* The rules of the classifier in their fixed order.
Rules ==
    <<[module |-> Foundations, keywords |-> FoundationsKeywords],
      [module |-> Profitability, keywords |-> ProfitabilityKeywords],
      [module |-> Liquidity, keywords |-> LiquidityKeywords],
      [module |-> AssetUtilisationModule, keywords |-> AssetUtilisationKeywords],
      [module |-> Leverage, keywords |-> LeverageKeywords],
      [module |-> Trend, keywords |-> TrendKeywords],
      [module |-> DuPont, keywords |-> DuPontKeywords]>>

RuleMatches(r, name) ==
    \E i \in 1..Len(Rules[r].keywords) :
        contains(Rules[r].keywords[i], lower(name))

FirstRuleModule(name) ==
    IF \E r \in 1..Len(Rules) : RuleMatches(r, name)
    THEN Rules[CHOOSE r \in 1..Len(Rules) :
                   /\ RuleMatches(r, name)
                   /\ \A e \in 1..(r - 1) : ~RuleMatches(e, name)].module
    ELSE OtherConcepts

\* C7: after group_concepts, each concept is in the module of the first rule
\* (in the order Foundations, Profitability, Liquidity, Asset Utilisation,
\* Leverage, Trend, DuPont) with a keyword that is a substring of its
\* lower-cased name, and in "Other Concepts" when no rule has one;
\* CurrentRatio is in Liquidity, DuPontAnalysis in DuPont and
\* ForeignExchangeRisk in Other Concepts.
Thm_C7_FirstMatch ==
    Called("group_concepts") =>
        \A i \in 1..Len(in_concepts) :
            LET c == in_concepts[i]
                name == concept_name(c)
            IN  /\ \A m \in ModuleSet :
                       InSeq(c, groups[m]) <=> m = FirstRuleModule(name)
                /\ name = CurrentRatio => InSeq(c, groups[Liquidity])
                /\ name = DuPontAnalysis => InSeq(c, groups[DuPont])
                /\ name = ForeignExchangeRisk => InSeq(c, groups[OtherConcepts])

\* A grouping with a name that matches two rules (Foundations and
\* Liquidity), a DuPont name and a name that matches none.
Wit_C7_FirstMatch ==
    /\ Called("group_concepts")
    /\ \E i \in 1..Len(in_concepts) :
           /\ concept_name(in_concepts[i]) = CashFlowLiquidity
           /\ InSeq(in_concepts[i], groups[Foundations])
    /\ \E i \in 1..Len(in_concepts) :
           /\ concept_name(in_concepts[i]) = LeverageDuPont
           /\ InSeq(in_concepts[i], groups[Leverage])
    /\ \E i \in 1..Len(in_concepts) :
           /\ concept_name(in_concepts[i]) = ForeignExchangeRisk
           /\ InSeq(in_concepts[i], groups[OtherConcepts])

AllConcepts == 1..Len(onto.name)

QuizzesOf(c) == {get_quizzes(c)[i] : i \in 1..Len(get_quizzes(c))}

\* C2: in every state of a session, a concept is mastered exactly when it
\* has a quiz question and the latest submission for one of its quiz
\* questions was correct.
Thm_C2_MasteredIff ==
    \A c \in AllConcepts :
        concept_mastered(c) <=>
            /\ QuizzesOf(c) # {}
            /\ \E q \in QuizzesOf(c) : last_result[q] = "correct"

\* A concept with two quiz questions, the latest answers one correct and
\* one incorrect, next to a concept without quiz questions.
Wit_C2_MasteredIff ==
    \E c, d \in AllConcepts :
        /\ concept_mastered(c)
        /\ \E q \in QuizzesOf(c) : last_result[q] = "incorrect"
        /\ QuizzesOf(d) = {}
        /\ ~concept_mastered(d)

\* The positions of the list `concepts` that hold a quiz-enabled concept,
\* and those that hold a concept with a quiz question recorded as correct.
QuizEnabledAt(concepts) ==
    {i \in 1..Len(concepts) : QuizzesOf(concepts[i]) # {}}

RecordedCorrect(q) ==
    quiz_name(q) \in DOMAIN quiz_correct /\ quiz_correct[quiz_name(q)]

MasteredAt(concepts) ==
    {i \in QuizEnabledAt(concepts) :
        \E q \in QuizzesOf(concepts[i]) : RecordedCorrect(q)}

\* value is 0 when no concept of the list is quiz-enabled, and otherwise
\* 100 x (mastered quiz-enabled concepts) / (quiz-enabled concepts).
IsProgressOf(value, concepts) ==
    LET enabled == Cardinality(QuizEnabledAt(concepts))
        mastered == Cardinality(MasteredAt(concepts))
    IN  /\ value.den > 0
        /\ 0 <= value.num /\ value.num <= 100 * value.den
        /\ IF enabled = 0 THEN value.num = 0
           ELSE value.num * enabled = 100 * mastered * value.den

\* C3: compute_progress and module_progress return 0 when no concept of the
\* list has a quiz question and otherwise 100 x mastered / quiz-enabled, a
\* value between 0 and 100; concepts without quiz questions are not counted.
Thm_C3_ProgressFormula ==
    /\ Called("compute_progress") => IsProgressOf(overall_progress, in_concepts)
    /\ Called("module_progress") => IsProgressOf(mp, in_concepts)

\* compute_progress gave 50 for a list of a concept without quiz questions,
\* a mastered concept and a quiz-enabled concept that is not mastered.
Wit_C3_ProgressFormula ==
    /\ Called("compute_progress")
    /\ overall_progress = Frac(50, 1)
    /\ Len(in_concepts) = 3
    /\ Cardinality(QuizEnabledAt(in_concepts)) = 2

UnmasteredAt(concepts) ==
    {i \in 1..Len(concepts) : i \notin MasteredAt(concepts)}

\* C4: recommend_next returns no concept twice and at most k concepts.
Thm_C4_NoDuplicatesAtMostK ==
    Called("recommend_next") => Injective(recs) /\ Len(recs) <= in_k

\* recommend_next was called with k = 1 on three concepts not mastered, two
\* of them unvisited beginner topics.
Wit_C4_NoDuplicatesAtMostK ==
    /\ Called("recommend_next")
    /\ in_k = 1
    /\ Len(recs) = 1
    /\ Len(in_concepts) = 3
    /\ Cardinality({c \in AllConcepts : is_beginner_candidate(c)}) = 2
    /\ MasteredAt(in_concepts) = {}

\* The list s without the later occurrences of its elements.
RECURSIVE Dedup(_)
Dedup(s) ==
    IF s = <<>> THEN <<>>
    ELSE LET init == Dedup(SubSeq(s, 1, Len(s) - 1))
         IN  IF InSeq(s[Len(s)], init) THEN init ELSE Append(init, s[Len(s)])

RECURSIVE Flatten(_)
Flatten(ss) == IF ss = <<>> THEN <<>> ELSE Head(ss) \o Flatten(Tail(ss))

IsMastered(c) == \E q \in QuizzesOf(c) : RecordedCorrect(q)

IsUnvisitedBeginner(c) ==
    /\ concept_name(c) \notin visited_concepts
    /\ LET level == IF onto.hasLevel[c] = <<>> \/ onto.hasLevel[c][1] = <<>>
                     THEN Unspecified ELSE onto.hasLevel[c][1]
       IN  /\ Len(level) >= Len(BeginnerPrefix)
           /\ \A i \in 1..Len(BeginnerPrefix) :
                  lower_char(level[i]) = BeginnerPrefix[i]

Phase1(concepts) == SelectSeq(concepts, IsUnvisitedBeginner)

Phase2(concepts) ==
    LET mastered == SelectSeq(concepts, IsMastered)
        related == Flatten([i \in 1..Len(mastered) |-> onto.relatedTo[mastered[i]]])
    IN  SelectSeq(related, LAMBDA r : ~IsMastered(r))

Phase3(concepts) == SelectSeq(concepts, LAMBDA c : ~IsMastered(c))

Candidates(concepts) ==
    Dedup(Phase1(concepts) \o Phase2(concepts) \o Phase3(concepts))

\* C5: recommend_next returns the first k elements of the duplicate-free
\* concatenation of phase 1 (unvisited beginner concepts in list order),
\* phase 2 (concepts not mastered that are related to a mastered concept, by
\* position of the mastered concept and then position in its relatedTo list)
\* and phase 3 (the concepts not mastered, in list order).
Thm_C5_ThreePhases ==
    Called("recommend_next") =>
        recs = SubSeq(Candidates(in_concepts), 1,
                      Min(in_k, Len(Candidates(in_concepts))))

\* recommend_next returned one concept of each phase, against list order:
\* concept 3, an unvisited beginner topic that is mastered, then concept 2,
\* related to it, then concept 1.
Wit_C5_ThreePhases ==
    /\ Called("recommend_next")
    /\ recs = <<3, 2, 1>>
    /\ Phase1(in_concepts) = <<3>>
    /\ Phase2(in_concepts) = <<2>>
    /\ IsMastered(3)

SeqToSet(s) == {s[i] : i \in 1..Len(s)}

\* C8: recommend_next returns exactly k concepts when the list holds at
\* least k concepts that are not mastered, fewer than k only when the
\* candidates of the three phases are fewer than k, and the empty list for
\* the empty list.
Thm_C8_ExactlyK ==
    Called("recommend_next") =>
        /\ Cardinality(UnmasteredAt(in_concepts)) >= in_k => Len(recs) = in_k
        /\ Len(recs) < in_k =>
               Cardinality(SeqToSet(Phase1(in_concepts))
                           \cup SeqToSet(Phase2(in_concepts))
                           \cup SeqToSet(Phase3(in_concepts))) < in_k
        /\ in_concepts = <<>> => recs = <<>>

\* recommend_next returned exactly k = 2 of three concepts, none of them a
\* beginner topic or mastered, so that phase 3 alone filled the list.
Wit_C8_ExactlyK ==
    /\ Called("recommend_next")
    /\ in_k = 2
    /\ recs = <<1, 2>>
    /\ Len(in_concepts) = 3
    /\ Phase1(in_concepts) = <<>>
    /\ MasteredAt(in_concepts) = {}

\* The step records a correct result for quiz question q, whose entry was
\* absent or False, and changes no other entry.
FlipsToCorrect(q) ==
    /\ ~RecordedCorrect(q)
    /\ DOMAIN quiz_correct' = DOMAIN quiz_correct \cup {quiz_name(q)}
    /\ quiz_correct'[quiz_name(q)] = TRUE
    /\ \A k \in DOMAIN quiz_correct :
           k # quiz_name(q) => quiz_correct'[k] = quiz_correct[k]

\* C6: a step that records a correct result for a quiz question whose entry
\* was absent or False does not lower compute_progress of any list of the
\* concepts.
Thm_C6_Monotone ==
    [][(\E q \in Quizzes : FlipsToCorrect(q)) =>
          \A concepts \in SubLists(Len(onto.name)) :
              FracLeq(compute_progress(concepts), compute_progress(concepts)')]_vars

\* A correct answer has just raised the progress from 0 (the value the run
\* computed before the click was handled) to 100, while another quiz
\* question stands recorded as incorrect.
Wit_C6_Monotone ==
    /\ event.kind = "check"
    /\ last_result[event.quiz] = "correct"
    /\ \E q \in Quizzes : last_result[q] = "incorrect"
    /\ compute_progress(list_concepts) = Frac(100, 1)
    /\ overall_progress = Zero

FullyDefinedQuizzesOf(c) == {q \in QuizzesOf(c) : fully_defined(q)}

\* C9: no result is recorded for a quiz question that lacks its text, its
\* options or its correct answer, and such a question does not count when
\* deciding quiz-enabled and mastered: the progress is 100 x mastered /
\* (concepts with a fully defined quiz question), 0 when there is none.
Cex_C9_MalformedExcluded ==
    /\ \A q \in Quizzes :
           ~fully_defined(q) => quiz_name(q) \notin DOMAIN quiz_correct
    /\ LET value == compute_progress(list_concepts)
           enabled == {c \in AllConcepts : FullyDefinedQuizzesOf(c) # {}}
           mastered ==
               {c \in enabled :
                   \E q \in FullyDefinedQuizzesOf(c) : RecordedCorrect(q)}
       IN  IF enabled = {} THEN value.num = 0
           ELSE value.num * Cardinality(enabled) =
                    100 * Cardinality(mastered) * value.den

\* Every key but k has the same entry, or none, before and after the step.
OnlyEntryChanged(k) ==
    \A j \in (DOMAIN quiz_correct \cup DOMAIN quiz_correct') \ {k} :
        /\ j \in DOMAIN quiz_correct
        /\ j \in DOMAIN quiz_correct'
        /\ quiz_correct'[j] = quiz_correct[j]

StartsEmpty ==
    /\ quiz_correct = EmptyDict
    /\ visited_concepts = {}
    /\ last_concept = None

FrameStep ==
    /\ event'.kind = "check" =>
           /\ OnlyEntryChanged(quiz_name(event'.quiz))
           /\ UNCHANGED <<visited_concepts, last_concept>>
    /\ event'.kind # "check" => quiz_correct' = quiz_correct
    /\ (visited_concepts' # visited_concepts \/ last_concept' # last_concept) =>
           /\ page' = Learn
           /\ selected_name' # None
           /\ \E c \in AllConcepts :
                  /\ concept_display_name(c) = selected_name'
                  /\ last_concept' = concept_name(c)
                  /\ visited_concepts' = visited_concepts \cup {concept_name(c)}
           /\ quiz_correct' = quiz_correct
    /\ page' \in {Home, Progress} => UNCHANGED progress_state

\* C10: the session starts with no quiz result, no visited concept and no
\* last concept; a quiz submission changes the entry of its quiz question
\* and nothing else of the progress state; a step that changes the visited
\* set or last_concept is a view of a concept on the Learn page and leaves
\* the quiz results alone; a run that only applies the calculators (Home,
\* Progress & Recommendations) changes nothing of the progress state.
Thm_C10_Frame == StartsEmpty /\ [][FrameStep]_vars

\* A submission on the Learn page made with two concepts visited and a
\* result of another quiz question on record.
Wit_C10_Frame ==
    /\ event.kind = "check"
    /\ page = Learn
    /\ Cardinality(DOMAIN quiz_correct) = 2
    /\ Cardinality(visited_concepts) = 2

\* The positions of s that are not whitespace.
NonSpace(s) == {p \in 1..Len(s) : s[p] # " "}

\* s without the whitespace before its first and after its last character
\* that is not whitespace.
Trimmed(s) ==
    IF NonSpace(s) = {} THEN <<>>
    ELSE LET first == CHOOSE p \in NonSpace(s) : \A r \in NonSpace(s) : p <= r
             last == CHOOSE p \in NonSpace(s) : \A r \in NonSpace(s) : r <= p
         IN  [k \in 1..(last - first + 1) |-> s[first + k - 1]]

\* The i-th of the parts of s that the separators "|" delimit.
Part(s, i) ==
    LET before(p) == Cardinality({j \in 1..p : s[j] = "|"})
        at == {p \in 1..Len(s) : s[p] # "|" /\ before(p) = i - 1}
    IN  IF at = {} THEN <<>>
        ELSE LET first == CHOOSE p \in at : \A r \in at : p <= r
             IN  [k \in 1..Cardinality(at) |-> s[first + k - 1]]

\* The answer selected by the submission and the correct answer of its
\* quiz question, both trimmed.
SelectedChoice == Trimmed(Part(onto.options[event.quiz][1], event.choice))
CorrectAnswer == Trimmed(onto.correctAnswer[event.quiz][1])

\* The same letters up to case.
SameUpToCase(a, b) ==
    /\ Len(a) = Len(b)
    /\ \A p \in 1..Len(a) :
           \/ a[p] = b[p]
           \/ \E j \in 1..Len(UpperCase) :
                  {a[p], b[p]} = {UpperCase[j], LowerCase[j]}

\* C11: after a quiz submission the result recorded for the quiz question is
\* True exactly when the selected choice (the part of the options between
\* the separators "|", trimmed) equals the trimmed correct answer character
\* by character, and False otherwise; answers that differ in the case of a
\* letter, or in whitespace inside the answer, are recorded False.
Thm_C11_TrimmedExactMatch ==
    event.kind = "check" =>
        /\ quiz_name(event.quiz) \in DOMAIN quiz_correct
        /\ quiz_correct[quiz_name(event.quiz)] = (SelectedChoice = CorrectAnswer)
        /\ (SelectedChoice # CorrectAnswer
                /\ SameUpToCase(SelectedChoice, CorrectAnswer)) =>
               quiz_correct[quiz_name(event.quiz)] = FALSE

\* The choice "a" was submitted on the Learn page for the correct answer
\* " A": recorded False, while the submission before it recorded True for
\* the other quiz question.
Wit_C11_TrimmedExactMatch ==
    /\ event.kind = "check"
    /\ page = Learn
    /\ SelectedChoice = <<"a">>
    /\ onto.correctAnswer[event.quiz][1] = CorrectA
    /\ SameUpToCase(SelectedChoice, CorrectAnswer)
    /\ quiz_correct[quiz_name(event.quiz)] = FALSE
    /\ \E q \in Quizzes : q # event.quiz /\ last_result[q] = "correct"

\* C12: in the run that handles a quiz submission the overall progress is
\* computed from the quiz results that already hold the result just
\* recorded, so the overall progress and the module progress the run shows
\* come from the same quiz results.
Cex_C12_MutationBeforeQuery ==
    event.kind = "check" =>
        /\ overall_progress = compute_progress(list_concepts)
        /\ mp # NotShown =>
               mp = module_progress(learn_module_concepts(groups, module, search))

\* C13: a mastered concept among the recommendations is an unvisited
\* beginner-level concept, returned by phase 1; every recommendation after
\* those of phase 1 (returned by phase 2 or phase 3) is not mastered.
Thm_C13_MasteredOnlyByPhase1 ==
    \A i \in 1..Len(recs) :
        /\ IsMastered(recs[i]) =>
               /\ IsUnvisitedBeginner(recs[i])
               /\ i <= Len(Phase1(list_concepts))
        /\ i > Len(Phase1(list_concepts)) => ~IsMastered(recs[i])

\* The Home page recommends a concept mastered through the Quiz Hub and
\* never opened on the Learn page, followed by a concept that is not
\* mastered.
Wit_C13_MasteredOnlyByPhase1 ==
    /\ page = Home
    /\ visited_concepts = {}
    /\ Len(recs) = 2
    /\ IsMastered(recs[1])
    /\ IsUnvisitedBeginner(recs[1])
    /\ ~IsMastered(recs[2])

\* last_concept is None exactly when no concept is visited, and otherwise
\* names a visited concept.
LastConceptVisited ==
    /\ last_concept = None <=> visited_concepts = {}
    /\ last_concept # None => last_concept \in visited_concepts

\* The visited set keeps its elements; a run that shows a concept on the
\* Learn page makes it the last concept, and any other run keeps the last
\* concept.
VisitedStep ==
    /\ visited_concepts \subseteq visited_concepts'
    /\ IF page' = Learn /\ selected_name' # None
       THEN \E c \in AllConcepts :
                /\ concept_display_name(c) = selected_name'
                /\ last_concept' = concept_name(c)
       ELSE last_concept' = last_concept

\* C14: the visited set never loses an element, last_concept is None
\* exactly when the visited set is empty, and a last_concept that is not
\* None is the name of a visited concept, the one viewed most recently.
Thm_C14_VisitedHistory == []LastConceptVisited /\ [][VisitedStep]_vars

\* Both concepts were viewed on the Learn page, the first one last, a quiz
\* question was answered, and the session is back on the Home page.
Wit_C14_VisitedHistory ==
    /\ page = Home
    /\ Cardinality(visited_concepts) = 2
    /\ last_concept = concept_name(1)
    /\ \E q \in Quizzes : last_result[q] # "none"

====
